---- MODULE Spec2Model ----
(***************************************************************************)
(* Ei Tun Lyrics Box: the App component (src/types.ts), the LRC parser it  *)
(* calls (utils/lrcParser, described in spec.md 4.1) and the time-to-line  *)
(* resolver used by the lyrics display (spec.md 4.2).                      *)
(*                                                                         *)
(* Texts are sequences of one-character strings, so that parsing is done   *)
(* character by character.  Times are integers in milliseconds: a tag      *)
(* [MM:SS.CC] is (MM*60+SS)*1000 + CC*10 and [MM:SS.CCC] is                *)
(* (MM*60+SS)*1000 + CCC, which agree exactly when the floating-point      *)
(* values MM*60+SS+fraction/10^digits agree.                               *)
(*                                                                         *)
(* A handler runs to completion on the event thread, so each handler and   *)
(* each callback is one action.  An action is enabled where the element    *)
(* that triggers it is rendered (lines 265-408).  isPlaying and            *)
(* targetLanguage are left out: no handler reads them to decide what it    *)
(* writes, and the backend's answer is arbitrary whatever the language.    *)
(***************************************************************************)
EXTENDS Integers, Sequences, FiniteSets, TLC

VARIABLES
  \* ---- App state (useState / useRef of the component) ----
  status,        \* ProcessingStatus
  audioFile,     \* NoFile or the identity of the selected File object
  audioUrl,      \* NoFile or the object URL created for that file
  lyrics,        \* LyricLine[]
  rawLrc,        \* string
  currentTime,   \* playback position reported by the audio player
  errorMessage,  \* NULL or a string
  showSettings,  \* boolean
  userApiKey,    \* string
  tempApiKey,    \* string
  abortRef,      \* abortRef.current
  \* ---- asynchronous work in flight ----
  phase,         \* request id -> "unissued" | "reading" | "calling" | "done"
  reqFile,       \* request id -> audioFile captured by the handler's closure
  reqKey,        \* request id -> userApiKey captured by the handler's closure
  \* ---- observers (history; never read by the program) ----
  stopped,       \* ids of the requests that were in flight when Stop was pressed
  stopIdle,      \* Stop was pressed and no Generate has been accepted since
  held,          \* id of the request whose result lyrics/rawLrc hold, 0 if none
  generates,     \* number of accepted Generate actions
  fileReads,     \* number of reader.readAsDataURL calls
  backendCalls,  \* number of generateLyricsFromAudio calls
  selections,    \* number of handleFileSelect calls
  heldText,      \* text the backend returned for the held request (<<>> if none)
  exported,      \* set of the Blob contents handed to the browser for download
  \* ---- parser / resolver taken on their own ----
  rawText,       \* input text of parseLrc
  sequence,      \* LyricLine sequence (output of parseLrc, input of the resolver)
  queryTime,     \* currentTime given to the resolver
  activeIndex,   \* result of the resolver
  corePc         \* "start" | "parsed" | "resolved"

appVars == <<status, audioFile, audioUrl, lyrics, rawLrc, currentTime,
             errorMessage, showSettings, userApiKey, tempApiKey, abortRef,
             phase, reqFile, reqKey>>
obsVars == <<stopped, stopIdle, held, generates, fileReads, backendCalls, selections,
             heldText, exported>>
coreVars == <<rawText, sequence, queryTime, activeIndex, corePc>>
vars == <<appVars, obsVars, coreVars>>

----------------------------------------------------------------------------
(* Bounds *)

MaxRequests == 2    \* Generate actions accepted in one run
MaxFiles == 2       \* file selections in one run
MaxLines == 2       \* lines of an input text of the parser
MaxSeqLen == 3      \* length of a sequence given to the resolver
MaxTick == 3        \* times of the resolver's sequences are 0..MaxTick

----------------------------------------------------------------------------
(* Characters and texts *)

Digits == {"0", "1", "2", "3", "4", "5", "6", "7", "8", "9"}

DigitVal(c) ==
  CASE c = "0" -> 0 [] c = "1" -> 1 [] c = "2" -> 2 [] c = "3" -> 3
    [] c = "4" -> 4 [] c = "5" -> 5 [] c = "6" -> 6 [] c = "7" -> 7
    [] c = "8" -> 8 [] c = "9" -> 9

Whitespace == {" ", "\t", "\r"}

\* String.prototype.trim
RECURSIVE TrimLeft(_)
TrimLeft(s) ==
  IF s # <<>> /\ Head(s) \in Whitespace THEN TrimLeft(Tail(s)) ELSE s

RECURSIVE TrimRight(_)
TrimRight(s) ==
  IF s # <<>> /\ s[Len(s)] \in Whitespace
  THEN TrimRight(SubSeq(s, 1, Len(s) - 1)) ELSE s

Trim(s) == TrimRight(TrimLeft(s))

----------------------------------------------------------------------------
(* LrcParser (spec.md 4.1) *)

\* step 1: split on \n, a \r immediately before the \n belongs to the separator
RECURSIVE SplitFrom(_, _, _)
SplitFrom(text, i, cur) ==
  IF i > Len(text) THEN <<cur>>
  ELSE IF text[i] = "\n"
       THEN LET line == IF cur # <<>> /\ cur[Len(cur)] = "\r"
                        THEN SubSeq(cur, 1, Len(cur) - 1) ELSE cur
            IN <<line>> \o SplitFrom(text, i + 1, <<>>)
       ELSE SplitFrom(text, i + 1, Append(cur, text[i]))

SplitLines(text) == SplitFrom(text, 1, <<>>)

\* step 2: length of the tag [MM:SS.CC] or [MM:SS.CCC] starting at pos, 0 if none
TagLenAt(line, pos) ==
  LET at(k) == IF pos + k <= Len(line) THEN line[pos + k] ELSE "" IN
  IF /\ at(0) = "[" /\ at(1) \in Digits /\ at(2) \in Digits /\ at(3) = ":"
     /\ at(4) \in Digits /\ at(5) \in Digits /\ at(6) = "."
     /\ at(7) \in Digits /\ at(8) \in Digits
  THEN IF at(9) \in Digits /\ at(10) = "]" THEN 11
       ELSE IF at(9) = "]" THEN 10 ELSE 0
  ELSE 0

\* step 3: minutes*60 + seconds + fraction/10^digits, in milliseconds
TagTime(tag) ==
  LET mm == DigitVal(tag[2]) * 10 + DigitVal(tag[3])
      ss == DigitVal(tag[5]) * 10 + DigitVal(tag[6])
      fr == IF Len(tag) = 11
            THEN DigitVal(tag[8]) * 100 + DigitVal(tag[9]) * 10 + DigitVal(tag[10])
            ELSE (DigitVal(tag[8]) * 10 + DigitVal(tag[9])) * 10
  IN (mm * 60 + ss) * 1000 + fr

\* step 2: the leading tags of a line, in order
RECURSIVE LeadingTags(_, _)
LeadingTags(line, pos) ==
  LET n == TagLenAt(line, pos) IN
  IF n = 0 THEN <<>>
  ELSE <<SubSeq(line, pos, pos + n - 1)>> \o LeadingTags(line, pos + n)

RECURSIVE TagsLength(_)
TagsLength(tags) ==
  IF tags = <<>> THEN 0 ELSE Len(Head(tags)) + TagsLength(Tail(tags))

\* steps 4-6: one candidate per leading tag, all with the trimmed remainder
LineCandidates(line) ==
  LET tags == LeadingTags(line, 1)
      text == Trim(SubSeq(line, TagsLength(tags) + 1, Len(line)))
  IN [k \in 1..Len(tags) |->
        [time |-> TagTime(tags[k]), text |-> text, originalTimeTag |-> tags[k]]]

RECURSIVE CandidatesOf(_)
CandidatesOf(lines) ==
  IF lines = <<>> THEN <<>>
  ELSE LineCandidates(Head(lines)) \o CandidatesOf(Tail(lines))

HasTranslation(rec) == "translation" \in DOMAIN rec

\* variant: a later candidate of the same time replaces the translation
MergeOneLastWins(acc, cand) ==
  IF \E k \in 1..Len(acc) : acc[k].time = cand.time
  THEN [k \in 1..Len(acc) |->
          IF acc[k].time = cand.time
          THEN [time |-> acc[k].time, text |-> acc[k].text,
                translation |-> cand.text,
                originalTimeTag |-> acc[k].originalTimeTag]
          ELSE acc[k]]
  ELSE Append(acc, cand)

\* step 7: the first candidate of a time is the primary line, the second its
\* translation, further ones are dropped
MergeOne(acc, cand) ==
  IF \E k \in 1..Len(acc) : acc[k].time = cand.time
  THEN [k \in 1..Len(acc) |->
          IF acc[k].time = cand.time /\ ~HasTranslation(acc[k])
          THEN [time |-> acc[k].time, text |-> acc[k].text,
                translation |-> cand.text,
                originalTimeTag |-> acc[k].originalTimeTag]
          ELSE acc[k]]
  ELSE Append(acc, cand)

RECURSIVE MergeTranslations(_, _)
MergeTranslations(acc, cands) ==
  IF cands = <<>> THEN acc
  ELSE MergeTranslations(MergeOne(acc, Head(cands)), Tail(cands))

\* step 8: stable sort, ascending by time
RECURSIVE InsertByTime(_, _)
InsertByTime(sorted, rec) ==
  IF sorted = <<>> THEN <<rec>>
  ELSE IF rec.time < Head(sorted).time THEN <<rec>> \o sorted
       ELSE <<Head(sorted)>> \o InsertByTime(Tail(sorted), rec)

RECURSIVE SortFrom(_, _)
SortFrom(sorted, recs) ==
  IF recs = <<>> THEN sorted
  ELSE SortFrom(InsertByTime(sorted, Head(recs)), Tail(recs))

NoSortByTime(recs) == recs

SortByTime(recs) == SortFrom(<<>>, recs)

parseLrc(text) ==
  SortByTime(MergeTranslations(<<>>, CandidatesOf(SplitLines(text))))

----------------------------------------------------------------------------
(* TimeSyncResolver (spec.md 4.2) *)

NoLine == [found |-> FALSE]
Line(i) == [found |-> TRUE, index |-> i]

\* binary search for the greatest 0-based index whose time <= t; seq[k+1] is
\* the program's sequence[k]
RECURSIVE Search(_, _, _, _, _)
Search(seq, t, lo, hi, ans) ==
  IF lo > hi THEN ans
  ELSE LET mid == (lo + hi) \div 2 IN
       IF seq[mid + 1].time <= t
       THEN Search(seq, t, mid + 1, hi, Line(mid))
       ELSE Search(seq, t, lo, mid - 1, ans)

\* the same search without narrowing above a hit (stops at the first hit)
RECURSIVE SearchFirstHit(_, _, _, _, _)
SearchFirstHit(seq, t, lo, hi, ans) ==
  IF lo > hi THEN ans
  ELSE LET mid == (lo + hi) \div 2 IN
       IF seq[mid + 1].time <= t
       THEN Line(mid)
       ELSE SearchFirstHit(seq, t, lo, mid - 1, ans)

resolveActiveIndexFirstHit(seq, t) == SearchFirstHit(seq, t, 0, Len(seq) - 1, NoLine)

resolveActiveIndex(seq, t) == Search(seq, t, 0, Len(seq) - 1, NoLine)

----------------------------------------------------------------------------
(* App (src/types.ts) *)

IDLE == "IDLE"
UPLOADING == "UPLOADING"
GENERATING == "GENERATING"
COMPLETE == "COMPLETE"
ERROR == "ERROR"
ProcessingStatus == {IDLE, UPLOADING, GENERATING, COMPLETE, ERROR}

NULL == "<null>"     \* errorMessage === null
NoFile == 0          \* audioFile === null, audioUrl === null

ReadFailedMessage == "Failed to read audio file."
GenerateFailedMessage == "Failed to generate lyrics."

RequestIds == 1..MaxRequests
InFlight == {r \in RequestIds : phase[r] \in {"reading", "calling"}}

\* ---- what the environment may supply ----

TagA == <<"[", "0", "0", ":", "0", "1", ".", "0", "0", "]">>
TagA3 == <<"[", "0", "0", ":", "0", "1", ".", "0", "0", "0", "]">>
TagB == <<"[", "0", "0", ":", "0", "2", ".", "5", "0", "]">>
BadTag == <<"[", "0", ":", "0", "1", ".", "0", "0", "]">>
NL == <<"\n">>
CRNL == <<"\r", "\n">>

\* texts the backend may return: the empty text, and a text with its tags out
\* of order and a line that is not a lyric line (so that parsing loses text)
ResponseOutOfOrder == TagB \o <<"b">> \o NL \o <<"A", "l", "b", "u", "m">> \o NL \o TagA \o <<"a">>
Responses == {<<>>, ResponseOutOfOrder}

\* err.message of a rejected backend call; "" stands for an empty or absent one
BackendErrorMessages == {"", "quota exceeded"}

ApiKeys == {"", "AIzaSy"}
PlaybackTimes == {0, 1500}

\* ---- state after mount (the stored API key, if any, is loaded) ----

AppInit ==
  /\ status = IDLE
  /\ audioFile = NoFile
  /\ audioUrl = NoFile
  /\ lyrics = <<>>
  /\ rawLrc = <<>>
  /\ currentTime = 0
  /\ errorMessage = NULL
  /\ showSettings = FALSE
  /\ userApiKey \in ApiKeys
  /\ tempApiKey = userApiKey
  /\ abortRef = FALSE
  /\ phase = [r \in RequestIds |-> "unissued"]
  /\ reqFile = [r \in RequestIds |-> NoFile]
  /\ reqKey = [r \in RequestIds |-> ""]
  /\ stopped = {}
  /\ stopIdle = FALSE
  /\ held = 0
  /\ generates = 0
  /\ fileReads = 0
  /\ backendCalls = 0
  /\ selections = 0
  /\ heldText = <<>>
  /\ exported = {}

CoreIdle ==
  /\ rawText = <<>>
  /\ sequence = <<>>
  /\ queryTime = 0
  /\ activeIndex = NoLine
  /\ corePc = "start"

Init == AppInit /\ CoreIdle

\* ---- settings dialog ----

OpenSettings ==
  /\ showSettings' = TRUE
  /\ UNCHANGED <<status, audioFile, audioUrl, lyrics, rawLrc, currentTime,
                 errorMessage, userApiKey, tempApiKey, abortRef, phase, reqFile,
                 reqKey>>
  /\ UNCHANGED <<obsVars, coreVars>>

CloseSettings ==
  /\ showSettings
  /\ showSettings' = FALSE
  /\ UNCHANGED <<status, audioFile, audioUrl, lyrics, rawLrc, currentTime,
                 errorMessage, userApiKey, tempApiKey, abortRef, phase, reqFile,
                 reqKey>>
  /\ UNCHANGED <<obsVars, coreVars>>

EditTempApiKey(k) ==
  /\ showSettings
  /\ tempApiKey' = k
  /\ UNCHANGED <<status, audioFile, audioUrl, lyrics, rawLrc, currentTime,
                 errorMessage, showSettings, userApiKey, abortRef, phase, reqFile,
                 reqKey>>
  /\ UNCHANGED <<obsVars, coreVars>>

handleSaveApiKey ==
  /\ showSettings
  /\ userApiKey' = tempApiKey
  /\ showSettings' = FALSE
  /\ UNCHANGED <<status, audioFile, audioUrl, lyrics, rawLrc, currentTime,
                 errorMessage, tempApiKey, abortRef, phase, reqFile, reqKey>>
  /\ UNCHANGED <<obsVars, coreVars>>

\* ---- upload view (rendered while status is IDLE or ERROR) ----

handleFileSelect ==
  /\ status \in {IDLE, ERROR}
  /\ selections < MaxFiles
  /\ audioFile' = selections + 1
  /\ audioUrl' = selections + 1
  /\ lyrics' = <<>>
  /\ rawLrc' = <<>>
  /\ status' = IDLE
  /\ errorMessage' = NULL
  /\ currentTime' = 0
  /\ selections' = selections + 1
  /\ held' = 0
  /\ heldText' = <<>>
  /\ UNCHANGED <<showSettings, userApiKey, tempApiKey, abortRef, phase, reqFile,
                 reqKey>>
  /\ UNCHANGED <<stopped, stopIdle, generates, fileReads, backendCalls, exported>>
  /\ UNCHANGED coreVars

\* lines 105-111: the flag is reset, the status shown and the file read issued.
\* new FileReader() and readAsDataURL of a File on a fresh reader do not
\* throw, so the catch of lines 151-155 is not reached.
\* variant: the cancel flag is not reset
StartRequestNoReset ==
  /\ generates < MaxRequests
  /\ UNCHANGED abortRef
  /\ status' = UPLOADING
  /\ phase' = [phase EXCEPT ![generates + 1] = "reading"]
  /\ reqFile' = [reqFile EXCEPT ![generates + 1] = audioFile]
  /\ reqKey' = [reqKey EXCEPT ![generates + 1] = userApiKey]
  /\ generates' = generates + 1
  /\ fileReads' = fileReads + 1
  /\ stopIdle' = FALSE

StartRequest ==
  /\ generates < MaxRequests
  /\ abortRef' = FALSE
  /\ status' = UPLOADING
  /\ phase' = [phase EXCEPT ![generates + 1] = "reading"]
  /\ reqFile' = [reqFile EXCEPT ![generates + 1] = audioFile]
  /\ reqKey' = [reqKey EXCEPT ![generates + 1] = userApiKey]
  /\ generates' = generates + 1
  /\ fileReads' = fileReads + 1
  /\ stopIdle' = FALSE

\* variant: the handler without the API key test of lines 100-103
handleGenerateLyricsNoKeyTest ==
  /\ status \in {IDLE, ERROR}
  /\ IF audioFile = NoFile
     THEN UNCHANGED <<showSettings, status, abortRef, phase, reqFile, reqKey,
                      generates, fileReads, stopIdle>>
     ELSE StartRequest /\ UNCHANGED showSettings
  /\ UNCHANGED <<audioFile, audioUrl, lyrics, rawLrc, currentTime, errorMessage,
                 userApiKey, tempApiKey>>
  /\ UNCHANGED <<stopped, held, backendCalls, selections, heldText, exported>>
  /\ UNCHANGED coreVars

\* The Generate button belongs to the upload view (line 265) and is rendered
\* there only with a file selected (lines 269, 293); the handler tests the
\* file again (line 97), and with none it returns without any change.
handleGenerateLyrics ==
  /\ status \in {IDLE, ERROR}
  /\ IF audioFile = NoFile
     THEN UNCHANGED <<showSettings, status, abortRef, phase, reqFile, reqKey,
                      generates, fileReads, stopIdle>>
     ELSE IF userApiKey = ""
          THEN /\ showSettings' = TRUE
               /\ UNCHANGED <<status, abortRef, phase, reqFile, reqKey,
                              generates, fileReads, stopIdle>>
          ELSE StartRequest /\ UNCHANGED showSettings
  /\ UNCHANGED <<audioFile, audioUrl, lyrics, rawLrc, currentTime, errorMessage,
                 userApiKey, tempApiKey>>
  /\ UNCHANGED <<stopped, held, backendCalls, selections, heldText, exported>>
  /\ UNCHANGED coreVars

\* ---- callbacks of a request ----
\* setStatus, setLyrics, ... and abortRef are the same objects in every render,
\* so a callback created by an earlier call of the handler acts on the current
\* state.  The two flag tests of lines 114 and 120 run in one turn of the
\* event loop and read the same value.

Discard(r) ==
  /\ phase' = [phase EXCEPT ![r] = "done"]
  /\ UNCHANGED <<status, audioFile, audioUrl, lyrics, rawLrc, currentTime,
                 errorMessage, showSettings, userApiKey, tempApiKey, abortRef,
                 reqFile, reqKey>>
  /\ UNCHANGED <<obsVars, coreVars>>

ReaderOnLoad(r) ==
  /\ phase[r] = "reading"
  /\ IF abortRef
     THEN Discard(r)
     ELSE /\ status' = GENERATING
          /\ phase' = [phase EXCEPT ![r] = "calling"]
          /\ backendCalls' = backendCalls + 1
          /\ UNCHANGED <<audioFile, audioUrl, lyrics, rawLrc, currentTime,
                         errorMessage, showSettings, userApiKey, tempApiKey,
                         abortRef, reqFile, reqKey>>
          /\ UNCHANGED <<stopped, stopIdle, held, generates, fileReads,
                         selections, heldText, exported>>
          /\ UNCHANGED coreVars

\* variant: the read failure stores its message but not the ERROR status
ReaderOnErrorSilent(r) ==
  /\ phase[r] = "reading"
  /\ IF abortRef
     THEN Discard(r)
     ELSE /\ errorMessage' = ReadFailedMessage
          /\ phase' = [phase EXCEPT ![r] = "done"]
          /\ UNCHANGED <<status, audioFile, audioUrl, lyrics, rawLrc, currentTime,
                         showSettings, userApiKey, tempApiKey, abortRef, reqFile,
                         reqKey>>
          /\ UNCHANGED obsVars
          /\ UNCHANGED coreVars

ReaderOnError(r) ==
  /\ phase[r] = "reading"
  /\ IF abortRef
     THEN Discard(r)
     ELSE /\ errorMessage' = ReadFailedMessage
          /\ status' = ERROR
          /\ phase' = [phase EXCEPT ![r] = "done"]
          /\ UNCHANGED <<audioFile, audioUrl, lyrics, rawLrc, currentTime,
                         showSettings, userApiKey, tempApiKey, abortRef, reqFile,
                         reqKey>>
          /\ UNCHANGED obsVars
          /\ UNCHANGED coreVars

\* variant: the raw text is stored without the parsed lines
ApplyResultRawOnly(generatedLrc) ==
  /\ rawLrc' = generatedLrc
  /\ UNCHANGED lyrics
  /\ status' = COMPLETE

\* what the success branch stores (lines 133-136)
ApplyResult(generatedLrc) ==
  /\ rawLrc' = generatedLrc
  /\ lyrics' = parseLrc(generatedLrc)
  /\ status' = COMPLETE

BackendSuccess(r, generatedLrc) ==
  /\ phase[r] = "calling"
  /\ IF abortRef
     THEN Discard(r)
     ELSE /\ ApplyResult(generatedLrc)
          /\ phase' = [phase EXCEPT ![r] = "done"]
          /\ held' = r
          /\ heldText' = generatedLrc
          /\ UNCHANGED <<audioFile, audioUrl, currentTime, errorMessage,
                         showSettings, userApiKey, tempApiKey, abortRef, reqFile,
                         reqKey>>
          /\ UNCHANGED <<stopped, stopIdle, generates, fileReads, backendCalls,
                         selections, exported>>
          /\ UNCHANGED coreVars

\* variant: err.message without the fallback text
FailureMessageNoFallback(message) == message

\* err.message || "Failed to generate lyrics."
FailureMessage(message) ==
  IF message # "" THEN message ELSE GenerateFailedMessage

BackendFailure(r, message) ==
  /\ phase[r] = "calling"
  /\ IF abortRef
     THEN Discard(r)
     ELSE /\ errorMessage' = FailureMessage(message)
          /\ status' = ERROR
          /\ phase' = [phase EXCEPT ![r] = "done"]
          /\ UNCHANGED <<audioFile, audioUrl, lyrics, rawLrc, currentTime,
                         showSettings, userApiKey, tempApiKey, abortRef, reqFile,
                         reqKey>>
          /\ UNCHANGED obsVars
          /\ UNCHANGED coreVars

\* ---- loading view (rendered while status is UPLOADING or GENERATING) ----

\* variant: Stop that leaves the cancel flag alone
handleStopNoFlag ==
  /\ status \in {UPLOADING, GENERATING}
  /\ status' = IDLE
  /\ stopped' = stopped \cup InFlight
  /\ stopIdle' = TRUE
  /\ UNCHANGED <<audioFile, audioUrl, lyrics, rawLrc, currentTime, errorMessage,
                 showSettings, userApiKey, tempApiKey, abortRef, phase, reqFile,
                 reqKey>>
  /\ UNCHANGED <<held, generates, fileReads, backendCalls, selections,
                 heldText, exported>>
  /\ UNCHANGED coreVars

handleStop ==
  /\ status \in {UPLOADING, GENERATING}
  /\ abortRef' = TRUE
  /\ status' = IDLE
  /\ stopped' = stopped \cup InFlight
  /\ stopIdle' = TRUE
  /\ UNCHANGED <<audioFile, audioUrl, lyrics, rawLrc, currentTime, errorMessage,
                 showSettings, userApiKey, tempApiKey, phase, reqFile, reqKey>>
  /\ UNCHANGED <<held, generates, fileReads, backendCalls, selections,
                 heldText, exported>>
  /\ UNCHANGED coreVars

\* ---- player view (rendered while status is COMPLETE and audioUrl is set) ----

\* variant: New Song that forgets the object URL
NewSongKeepsUrl ==
  /\ status = COMPLETE
  /\ audioUrl # NoFile
  /\ audioFile' = NoFile
  /\ status' = IDLE
  /\ UNCHANGED <<audioUrl, lyrics, rawLrc, currentTime, errorMessage,
                 showSettings, userApiKey, tempApiKey, abortRef, phase, reqFile,
                 reqKey>>
  /\ UNCHANGED <<obsVars, coreVars>>

NewSong ==
  /\ status = COMPLETE
  /\ audioUrl # NoFile
  /\ audioFile' = NoFile
  /\ audioUrl' = NoFile
  /\ status' = IDLE
  /\ UNCHANGED <<lyrics, rawLrc, currentTime, errorMessage, showSettings,
                 userApiKey, tempApiKey, abortRef, phase, reqFile, reqKey>>
  /\ UNCHANGED <<obsVars, coreVars>>

\* variant: the export re-serialises the parsed lines
RECURSIVE Serialize(_)
Serialize(lines) ==
  IF lines = <<>> THEN <<>>
  ELSE Head(lines).originalTimeTag \o Head(lines).text
       \o (IF Len(lines) > 1 THEN NL ELSE <<>>) \o Serialize(Tail(lines))

BlobContentSerialized == Serialize(lyrics)

\* the text put into the Blob (line 166)
BlobContent == rawLrc

downloadLrc ==
  /\ status = COMPLETE
  /\ audioUrl # NoFile
  /\ IF rawLrc = <<>>
     THEN UNCHANGED exported
     ELSE exported' = exported \cup {BlobContent}
  /\ UNCHANGED appVars
  /\ UNCHANGED <<stopped, stopIdle, held, generates, fileReads, backendCalls,
                 selections, heldText>>
  /\ UNCHANGED coreVars

TimeUpdate(t) ==
  /\ status = COMPLETE
  /\ audioUrl # NoFile
  /\ currentTime' = t
  /\ UNCHANGED <<status, audioFile, audioUrl, lyrics, rawLrc, errorMessage,
                 showSettings, userApiKey, tempApiKey, abortRef, phase, reqFile,
                 reqKey>>
  /\ UNCHANGED <<obsVars, coreVars>>

Callback(r) ==
  \/ ReaderOnLoad(r)
  \/ ReaderOnError(r)
  \/ \E generatedLrc \in Responses : BackendSuccess(r, generatedLrc)
  \/ \E message \in BackendErrorMessages : BackendFailure(r, message)

Next ==
  \/ OpenSettings
  \/ CloseSettings
  \/ \E k \in ApiKeys : EditTempApiKey(k)
  \/ handleSaveApiKey
  \/ handleFileSelect
  \/ handleGenerateLyrics
  \/ \E r \in RequestIds : ReaderOnLoad(r)
  \/ \E r \in RequestIds : ReaderOnError(r)
  \/ \E r \in RequestIds, generatedLrc \in Responses : BackendSuccess(r, generatedLrc)
  \/ \E r \in RequestIds, message \in BackendErrorMessages : BackendFailure(r, message)
  \/ handleStop
  \/ NewSong
  \/ downloadLrc
  \/ \E t \in PlaybackTimes : TimeUpdate(t)

Spec == Init /\ [][Next]_vars

\* every issued file read and every issued backend call delivers a callback
CallbacksDelivered == \A r \in RequestIds : WF_vars(Callback(r))

SpecFair == Init /\ [][Next]_vars /\ CallbacksDelivered

----------------------------------------------------------------------------
(* The parser and the resolver on their own inputs *)

TagC == <<"[", "0", "1", ":", "0", "0", ".", "0", "0", "]">>

LinePrefixes ==
  {<<>>, TagA, TagB, TagC, TagA3, TagB \o TagA, TagA \o TagA3, BadTag}
LineTexts == {<<>>, <<"x">>, <<" ", "y", " ">>}
InputLines == {p \o t : p \in LinePrefixes, t \in LineTexts}
LineSeparators == {NL, CRNL}

RECURSIVE JoinLines(_, _)
JoinLines(lines, sep) ==
  IF lines = <<>> THEN <<>>
  ELSE IF Len(lines) = 1 THEN Head(lines)
       ELSE Head(lines) \o sep \o JoinLines(Tail(lines), sep)

ParserInputs ==
  {JoinLines(ls, sep) :
     ls \in UNION {[1..n -> InputLines] : n \in 0..MaxLines},
     sep \in LineSeparators}

\* a LyricLine at tick k (k seconds)
TickTag(k) == <<"[", "0", "0", ":", "0", ToString(k), ".", "0", "0", "]">>
TickLine(k) == [time |-> k * 1000, text |-> <<"x">>, originalTimeTag |-> TickTag(k)]

IsSorted(seq) == \A i, j \in 1..Len(seq) : i < j => seq[i].time <= seq[j].time

SortedSequencesOfLen(n) ==
  {[i \in 1..n |-> TickLine(f[i])] :
     f \in {g \in [1..n -> 0..MaxTick] : \A i \in 1..(n - 1) : g[i] <= g[i + 1]}}

\* every tick, every half tick, and a time before the track start
QueryTimes == {-500} \cup {k * 500 : k \in 0..(2 * MaxTick + 1)}

InitParser ==
  /\ AppInit
  /\ rawText \in ParserInputs
  /\ sequence = <<>>
  /\ queryTime = 0
  /\ activeIndex = NoLine
  /\ corePc = "start"

Parse ==
  /\ corePc = "start"
  /\ sequence' = parseLrc(rawText)
  /\ corePc' = "parsed"
  /\ UNCHANGED <<rawText, queryTime, activeIndex>>
  /\ UNCHANGED <<appVars, obsVars>>

NextParser == Parse

SpecParser == InitParser /\ [][NextParser]_vars

InitResolver ==
  /\ AppInit
  /\ rawText = <<>>
  /\ sequence \in UNION {SortedSequencesOfLen(n) : n \in 0..MaxSeqLen}
  /\ queryTime = 0
  /\ activeIndex = NoLine
  /\ corePc = "parsed"

Resolve(t) ==
  /\ corePc \in {"parsed", "resolved"}
  /\ queryTime' = t
  /\ activeIndex' = resolveActiveIndex(sequence, t)
  /\ corePc' = "resolved"
  /\ UNCHANGED <<rawText, sequence>>
  /\ UNCHANGED <<appVars, obsVars>>

NextResolver == \E t \in QueryTimes : Resolve(t)

SpecResolver == InitResolver /\ [][NextResolver]_vars

----------------------------------------------------------------------------
(* Properties *)

AppState == <<status, lyrics, rawLrc, errorMessage>>

\* C1: once Stop was pressed on an in-flight request, no callback of that
\* request changes status, lyrics, rawLrc or errorMessage, whatever the user
\* does in between (another file, Generate again).
C1_StoppedRequestIsDiscarded ==
  [][\A r \in stopped : Callback(r) => UNCHANGED AppState]_vars

\* C2: whenever status is ERROR, rawLrc is the empty string and lyrics is
\* the empty sequence.
C2_ErrorLeavesLyricsEmpty ==
  status = ERROR => (rawLrc = <<>> /\ lyrics = <<>>)

\* C3: a file selection empties lyrics and rawLrc, sets status to IDLE and
\* errorMessage to null, and afterwards lyrics/rawLrc never hold the result
\* of a request issued before the latest file selection (a request issued
\* after selection number k captured file k).
HeldIsOfCurrentSelection == held # 0 => reqFile[held] = selections

C3_FileSelectDiscardsOldLyrics ==
  [][/\ handleFileSelect =>
          (lyrics' = <<>> /\ rawLrc' = <<>> /\ status' = IDLE /\ errorMessage' = NULL)
     /\ HeldIsOfCurrentSelection']_vars

\* C4: Stop, taken while UPLOADING or GENERATING, sets status to IDLE and
\* leaves errorMessage, lyrics, rawLrc and the selected audio unchanged; no
\* error banner is shown after it, and as long as no Generate is accepted
\* afterwards status stays IDLE whatever callbacks are delivered.
ErrorBannerShown == status = ERROR /\ errorMessage # NULL /\ errorMessage # ""

C4_StopGoesIdleSilently ==
  [][/\ (stopIdle' /\ ~stopIdle) =>
          /\ status \in {UPLOADING, GENERATING}
          /\ UNCHANGED <<errorMessage, lyrics, rawLrc, audioFile, audioUrl>>
     /\ stopIdle' => (status' = IDLE /\ ~ErrorBannerShown')]_vars

C4_Witness ==
  /\ stopIdle
  /\ status = IDLE
  /\ \E r \in stopped : phase[r] = "done"

\* C5: no automatic retry: file reads and backend calls never outnumber the
\* accepted Generate actions, and while status is ERROR a file read or a
\* backend call is issued only by a step that accepts a new Generate.
C5_NoAutomaticRetry ==
  [][/\ fileReads' <= generates'
     /\ backendCalls' <= generates'
     /\ (status = ERROR /\ (fileReads' # fileReads \/ backendCalls' # backendCalls))
          => generates' = generates + 1]_vars

\* C6: whenever status is ERROR, errorMessage is a non-null, non-empty text.
C6_ErrorHasMessage ==
  status = ERROR => (errorMessage # NULL /\ errorMessage # "")

C6_Witness ==
  status = ERROR /\ errorMessage = GenerateFailedMessage

\* C7: rawLrc and lyrics are kept together: either no result is held and both
\* are empty, or rawLrc is the text the backend returned for the held request
\* and lyrics is exactly parseLrc of that same text.
C7_RawAndParsedTogether ==
  IF held = 0
  THEN rawLrc = <<>> /\ lyrics = <<>>
  ELSE rawLrc = heldText /\ lyrics = parseLrc(heldText)

C7_Witness ==
  /\ held # 0
  /\ rawLrc = ResponseOutOfOrder
  /\ Len(lyrics) = 2
  /\ \E r \in stopped : phase[r] = "done"

\* C8: a download exports exactly the text the backend returned for the held
\* result, happens only when rawLrc is non-empty, and changes no App state.
C8_ExportIsBackendText ==
  [][exported' # exported =>
       /\ rawLrc # <<>>
       /\ held # 0
       /\ exported' = exported \cup {heldText}
       /\ UNCHANGED appVars]_vars

C8_Witness ==
  /\ ResponseOutOfOrder \in exported
  /\ Serialize(parseLrc(ResponseOutOfOrder)) # ResponseOutOfOrder

\* C9: the resolver returns "none" for an empty sequence or a time before the
\* first line, and otherwise the greatest index whose time is <= currentTime;
\* the binary search agrees with this after any series of queries.
ActiveLine(seq, t) ==
  IF seq = <<>> \/ t < seq[1].time
  THEN NoLine
  ELSE Line(CHOOSE i \in 0..(Len(seq) - 1) :
              /\ seq[i + 1].time <= t
              /\ \A j \in 0..(Len(seq) - 1) : seq[j + 1].time <= t => j <= i)

C9_ResolverGreatestIndex ==
  corePc = "resolved" =>
    /\ activeIndex = ActiveLine(sequence, queryTime)
    /\ activeIndex.found =>
         /\ sequence[activeIndex.index + 1].time <= queryTime
         /\ activeIndex.index + 1 < Len(sequence) =>
              queryTime < sequence[activeIndex.index + 2].time

C9_Witness ==
  /\ corePc = "resolved"
  /\ Len(sequence) = 3
  /\ sequence[1].time = sequence[2].time
  /\ sequence[2].time <= queryTime
  /\ queryTime < sequence[3].time
  /\ activeIndex = Line(1)

\* C10: the parser's output is strictly ascending by time: ordered even when
\* the tags are out of order in the text, and no two records share a time.
StrictlyAscending(seq) ==
  \A i, j \in 1..Len(seq) : i < j => seq[i].time < seq[j].time

C10_ParsedStrictlyAscending ==
  corePc = "parsed" => StrictlyAscending(sequence)

C10_Witness ==
  LET cands == CandidatesOf(SplitLines(rawText)) IN
  /\ corePc = "parsed"
  /\ Len(sequence) >= 2
  /\ Len(cands) > Len(sequence)
  /\ \E i, j \in 1..Len(cands) : i < j /\ cands[i].time > cands[j].time

\* C11: for every time that occurs among the candidates, the output has one
\* record whose text is the text of the first candidate of that time in source
\* order and whose translation is the text of the second; later candidates of
\* that time change nothing, and a lone candidate yields no translation.
CandidatesAt(cands, t) == SelectSeq(cands, LAMBDA c : c.time = t)

C11_TranslationMergeRule ==
  corePc = "parsed" =>
    LET cands == CandidatesOf(SplitLines(rawText)) IN
    /\ {sequence[i].time : i \in 1..Len(sequence)}
         = {cands[k].time : k \in 1..Len(cands)}
    /\ \A i \in 1..Len(sequence) :
         LET group == CandidatesAt(cands, sequence[i].time) IN
         /\ sequence[i].text = group[1].text
         /\ IF Len(group) >= 2
            THEN HasTranslation(sequence[i])
                 /\ sequence[i].translation = group[2].text
            ELSE ~HasTranslation(sequence[i])

C11_Witness ==
  LET cands == CandidatesOf(SplitLines(rawText)) IN
  /\ corePc = "parsed"
  /\ \E i \in 1..Len(sequence) :
       LET group == CandidatesAt(cands, sequence[i].time) IN
       /\ Len(group) >= 3
       /\ group[3].text # group[2].text
       /\ sequence[i].translation = group[2].text

Busy == status \in {UPLOADING, GENERATING}

\* C12: status follows the protocol: GENERATING is entered only from
\* UPLOADING, COMPLETE only from GENERATING, ERROR only from UPLOADING or
\* GENERATING; a callback never moves status out of IDLE, COMPLETE or ERROR,
\* and COMPLETE is left only by New Song.
C12_StatusProtocol ==
  [][/\ (status' = GENERATING /\ status # GENERATING) => status = UPLOADING
     /\ (status' = COMPLETE /\ status # COMPLETE) => status = GENERATING
     /\ (status' = ERROR /\ status # ERROR) => Busy
     /\ ((\E r \in RequestIds : Callback(r)) /\ ~Busy) => status' = status
     /\ (status = COMPLETE /\ status' # COMPLETE) => NewSong]_vars

\* C13: whenever status is COMPLETE an audio file and its URL are present,
\* so the player view is rendered.
C13_CompleteHasAudio ==
  status = COMPLETE => (audioFile # NoFile /\ audioUrl # NoFile)

\* C14: with every callback eventually delivered, a shown spinner (status
\* UPLOADING or GENERATING) eventually gives way to IDLE, COMPLETE or ERROR,
\* and it gives way to IDLE only through a Stop.
C14_SpinnerEnds ==
  Busy ~> (status \in {COMPLETE, ERROR} \/ (status = IDLE /\ stopIdle))

C14_Witness ==
  /\ status \in {COMPLETE, ERROR}
  /\ stopped # {}
  /\ \A r \in RequestIds : phase[r] = "done"

\* C15: Generate with no file changes nothing; with a file and an empty API
\* key it only opens the settings dialog; a file read is issued only with a
\* file and a non-empty key, and a backend call only for a request that
\* captured a non-empty key.
C15_GenerateGuards ==
  [][/\ (handleGenerateLyrics /\ audioFile = NoFile) => UNCHANGED vars
     /\ (handleGenerateLyrics /\ audioFile # NoFile /\ userApiKey = "") =>
          /\ showSettings'
          /\ UNCHANGED <<status, abortRef, lyrics, rawLrc, errorMessage, phase,
                         generates, fileReads, backendCalls>>
     /\ fileReads' # fileReads => (audioFile # NoFile /\ userApiKey # "")
     /\ backendCalls' # backendCalls =>
          \E r \in RequestIds : /\ phase[r] = "reading"
                                /\ phase'[r] = "calling"
                                /\ reqKey[r] # ""]_vars

C15_Witness ==
  /\ userApiKey = ""
  /\ backendCalls > 0
  /\ \E r \in RequestIds : phase[r] = "calling" /\ reqKey[r] # ""

\* C16 as stated: New Song leaves status IDLE, no audio file or URL, and
\* lyrics and rawLrc empty.
NewSongStep == status = COMPLETE /\ audioFile # NoFile /\ audioFile' = NoFile

C16_NewSongResetsAll ==
  [][NewSongStep =>
       /\ status' = IDLE
       /\ audioFile' = NoFile /\ audioUrl' = NoFile
       /\ lyrics' = <<>> /\ rawLrc' = <<>>]_vars

\* C16 amended: New Song leaves status IDLE and no audio file or URL; lyrics
\* and rawLrc are left as they were (the next file selection empties them).
C16_NewSongDropsAudioOnly ==
  [][NewSongStep =>
       /\ status' = IDLE
       /\ audioFile' = NoFile /\ audioUrl' = NoFile
       /\ UNCHANGED <<lyrics, rawLrc>>]_vars

C16_Witness ==
  /\ status = IDLE
  /\ audioFile = NoFile /\ audioUrl = NoFile
  /\ rawLrc # <<>> /\ lyrics # <<>>

\* C17: whenever status is UPLOADING or GENERATING the cancel flag is false.
C17_BusyMeansNotCancelled ==
  Busy => ~abortRef

C17_Witness ==
  /\ Busy
  /\ ~abortRef
  /\ \E r \in stopped : phase[r] \in {"reading", "calling"}

====
